---- MODULE Spec2Model ----
(***************************************************************************)
(* Model of the /risk endpoint of the AquaAlert backend (src/main.py):     *)
(* geocode -> elevation -> rainfall -> calc_risk -> live NWS alert bump -> *)
(* response.  One request is followed from its start to its answer.        *)
(*                                                                         *)
(* Python strings that the code inspects (event names, severities, the     *)
(* state code) are sequences of one-character strings, so that lower(),    *)
(* len() and the substring test are computed, not assumed.  JSON values    *)
(* are tagged records: [t |-> "null"], [t |-> "str", s |-> chars],         *)
(* [t |-> "num", n |-> n], [t |-> "list", items |-> seq], [t |-> "obj",..] *)
(* Elevation and rainfall are integers (metres, millimetres): calc_risk    *)
(* only compares them with integer thresholds.  The address, lat and lon   *)
(* are passed through unread and are left out.                             *)
(***************************************************************************)
EXTENDS Integers, Sequences, FiniteSets, TLC

\* Longest "features" list an alert query answers with in the model.
MaxAlerts == 2

----------------------------------------------------------------------------
(* JSON values *)

Null == [t |-> "null"]
Str(s) == [t |-> "str", s |-> s]
Num(n) == [t |-> "num", n |-> n]
List(s) == [t |-> "list", items |-> s]

\* Python truthiness of a JSON value, as used by `x or ""`, `not feats`,
\* `state_code and ...`.
Truthy(x) ==
    CASE x.t = "null" -> FALSE
      [] x.t = "str"  -> Len(x.s) > 0
      [] x.t = "num"  -> x.n # 0
      [] x.t = "list" -> Len(x.items) > 0
      [] OTHER        -> TRUE

UpperChars == <<"A","B","C","D","E","F","G","H","I","J","K","L","M","N","O","P","Q","R","S","T","U","V","W","X","Y","Z">>
LowerChars == <<"a","b","c","d","e","f","g","h","i","j","k","l","m","n","o","p","q","r","s","t","u","v","w","x","y","z">>

\* str.lower() on one character and on a string.
LowerOf ==
    [c \in {UpperChars[i] : i \in 1..Len(UpperChars)} |->
        LowerChars[CHOOSE i \in 1..Len(UpperChars) : UpperChars[i] = c]]

LowerChar(c) == IF c \in DOMAIN LowerOf THEN LowerOf[c] ELSE c

lower(s) == [i \in 1..Len(s) |-> LowerChar(s[i])]

\* Python's `k in e` for strings: k occurs in e as a contiguous substring.
Contains(e, k) ==
    \E i \in 0..(Len(e) - Len(k)) : \A j \in 1..Len(k) : e[i + j] = k[j]

----------------------------------------------------------------------------
(* The pure functions of src/main.py *)

order == <<"Very Low", "Low", "Moderate", "High", "Very High">>

calc_risk_StrictTop(elev_m, avg_mm) ==
    LET e == IF elev_m > 20 THEN 0 ELSE IF elev_m >= 10 THEN 1
             ELSE IF elev_m >= 5 THEN 2 ELSE 3
        r == IF avg_mm <= 50 THEN 0 ELSE IF avg_mm <= 90 THEN 1
             ELSE IF avg_mm <= 120 THEN 2 ELSE 3
        t == e + r
    IN  IF t <= 1 THEN "Very Low"
        ELSE IF t <= 3 THEN "Low"
        ELSE IF t <= 4 THEN "Moderate"
        ELSE IF t <= 5 THEN "High"
        ELSE "Very High"

calc_risk_SwappedRain(elev_m, avg_mm) ==
    LET e == IF elev_m >= 20 THEN 0 ELSE IF elev_m >= 10 THEN 1
             ELSE IF elev_m >= 5 THEN 2 ELSE 3
        r == IF avg_mm <= 50 THEN 0 ELSE IF avg_mm <= 90 THEN 3
             ELSE IF avg_mm <= 120 THEN 2 ELSE 3
        t == e + r
    IN  IF t <= 1 THEN "Very Low"
        ELSE IF t <= 3 THEN "Low"
        ELSE IF t <= 4 THEN "Moderate"
        ELSE IF t <= 5 THEN "High"
        ELSE "Very High"

calc_risk(elev_m, avg_mm) ==
    LET e == IF elev_m >= 20 THEN 0 ELSE IF elev_m >= 10 THEN 1
             ELSE IF elev_m >= 5 THEN 2 ELSE 3
        r == IF avg_mm <= 50 THEN 0 ELSE IF avg_mm <= 90 THEN 1
             ELSE IF avg_mm <= 120 THEN 2 ELSE 3
        t == e + r
    IN  IF t <= 1 THEN "Very Low"
        ELSE IF t <= 3 THEN "Low"
        ELSE IF t <= 4 THEN "Moderate"
        ELSE IF t <= 5 THEN "High"
        ELSE "Very High"

tips_for(lvl) ==
    IF lvl \in {"High", "Very High"}
    THEN << "Install a sump pump w/ backup power.",
            "Seal foundation cracks & window wells.",
            "Redirect downspouts 3-6 ft from foundation." >>
    ELSE IF lvl = "Moderate"
    THEN << "Consider a French drain.",
            "Regrade soil to slope away from the house.",
            "Use native plants for absorption." >>
    ELSE << "Maintain gutters/downspouts.",
            "Keep a basic emergency kit.",
            "Sign up for local weather alerts." >>

Min(a, b) == IF a <= b THEN a ELSE b

bump_risk_TwoSteps(lvl) ==
    LET i == IF \E k \in 1..Len(order) : order[k] = lvl
             THEN (CHOOSE k \in 1..Len(order) : order[k] = lvl) - 1
             ELSE 0
    IN  order[Min(i + 2, Len(order) - 1) + 1]

\* order.index(level) is 0-based; a level outside the list gives i = 0.
bump_risk(lvl) ==
    LET i == IF \E k \in 1..Len(order) : order[k] = lvl
             THEN (CHOOSE k \in 1..Len(order) : order[k] = lvl) - 1
             ELSE 0
    IN  order[Min(i + 1, Len(order) - 1) + 1]

FloodKeywords ==
    { <<"f","l","o","o","d">>, <<"f","l","a","s","h">>,
      <<"c","o","a","s","t","a","l">>, <<"s","u","r","g","e">> }

\* (event or "").lower() raises AttributeError when event is truthy and
\* not a string.
floodish_raises(event) == Truthy(event) /\ event.t # "str"

floodish_CaseSensitive(event) ==
    LET e == IF Truthy(event) THEN event.s ELSE <<>>
    IN  \E k \in FloodKeywords : Contains(e, k)

floodish(event) ==
    LET e == lower(IF Truthy(event) THEN event.s ELSE <<>>)
    IN  \E k \in FloodKeywords : Contains(e, k)

----------------------------------------------------------------------------
(* Inputs: what the collaborators may answer *)

\* Elevations (m) and average monthly rainfalls (mm) the services answer
\* with: each threshold of calc_risk, the value just on its other side, a
\* negative and a very large elevation, and the worked example 7 m / 82 mm.
ElevValues == {-1, 4, 5, 7, 9, 10, 19, 20, 300}
RainValues == {50, 51, 82, 90, 91, 120, 121}

\* state_code as geocode returns it: absent, two letters, three letters.
StateCodes == {Null, Str(<<"C","A">>), Str(<<"N","S","W">>)}

Feature(event, severity) ==
    [t |-> "obj",
     properties |-> [t |-> "obj", event |-> event, severity |-> severity]]

\* Alert records ("features") of the NWS answer: flood-relevant ones with
\* the severities the code distinguishes (in several letter cases, and
\* absent), one that is not flood-relevant, and malformed ones.
FeaturePool ==
    { Feature(Str(<<"F","l","a","s","h"," ","F","l","o","o","d"," ","W","a","r","n","i","n","g">>),
              Str(<<"M","o","d","e","r","a","t","e">>)),
      Feature(Str(<<"C","o","a","s","t","a","l"," ","F","l","o","o","d"," ","A","d","v","i","s","o","r","y">>),
              Str(<<"S","e","v","e","r","e">>)),
      Feature(Str(<<"S","T","O","R","M"," ","S","U","R","G","E"," ","W","A","R","N","I","N","G">>),
              Str(<<"E","X","T","R","E","M","E">>)),
      Feature(Str(<<"F","l","o","o","d"," ","W","a","t","c","h">>), Null),
      Feature(Str(<<"T","o","r","n","a","d","o"," ","W","a","r","n","i","n","g">>),
              Str(<<"E","x","t","r","e","m","e">>)),
      \* malformed: a severity that is not a string
      Feature(Str(<<"F","l","o","o","d"," ","W","a","r","n","i","n","g">>), Num(5)),
      \* malformed: an event that is not a string
      Feature(Num(7), Str(<<"S","e","v","e","r","e">>)),
      \* "properties": null
      [t |-> "obj", properties |-> Null],
      \* malformed: a feature that is not an object
      Str(<<"x">>) }

FeatureLists == UNION { [1..n -> FeaturePool] : n \in 0..MaxAlerts }

\* Bodies of an alert answer: not JSON at all, JSON that is not an object,
\* an object with "features": null, an object with a list of features.
InvalidBody == [t |-> "invalid"]
AlertBodies ==
    { InvalidBody, List(<<>>), [t |-> "obj", features |-> Null] }
    \cup { [t |-> "obj", features |-> List(fs)] : fs \in FeatureLists }

\* What requests.get may do for an alert query: raise, or return a response.
AlertOutcomes ==
    { [t |-> "response", raised |-> TRUE, ok |-> FALSE, body |-> InvalidBody],
      [t |-> "response", raised |-> FALSE, ok |-> FALSE, body |-> InvalidBody] }
    \cup { [t |-> "response", raised |-> FALSE, ok |-> TRUE, body |-> b] : b \in AlertBodies }

----------------------------------------------------------------------------
(* State of one /risk request *)

VARIABLES
    pc,                  \* position in risk()
    api_key,             \* OPENCAGE_API_KEY is set
    calls,               \* collaborators called so far, with each result
    state_code,          \* geocode's third result
    elev,                \* get_elevation's result
    avg_rain,            \* get_avg_monthly_rain's result
    level,               \* the local `level`
    r,                   \* response of the point query
    r2,                  \* response of the state-wide query
    feats,               \* the local `feats`
    alert_bump_applied,  \* the local of that name
    debug_alerts_count,  \* the local of that name
    alert_exc,           \* the `except Exception: pass` of the alert block ran
    response             \* what the request is answered with

vars == << pc, api_key, calls, state_code, elev, avg_rain, level, r, r2,
           feats, alert_bump_applied, debug_alerts_count, alert_exc,
           response >>

Pending == [kind |-> "pending"]
HttpError(status) == [kind |-> "error", status |-> status]
Call(svc, result) == [svc |-> svc, result |-> result]

Init ==
    /\ pc = "start"
    /\ api_key \in BOOLEAN
    /\ calls = <<>>
    /\ state_code = Null
    /\ elev = Null
    /\ avg_rain = Null
    /\ level = "unset"
    /\ r = Null
    /\ r2 = Null
    /\ feats = Null
    /\ alert_bump_applied = FALSE
    /\ debug_alerts_count = 0
    /\ alert_exc = FALSE
    /\ response = Pending

\* An exception of a collaborator as risk()'s handlers answer it:
\* requests.HTTPError (raise_for_status) -> 502, anything else -> 500.
StatusOf(failure) == IF failure = "http_error" THEN 502 ELSE 500

Failures == {"http_error", "error"}

----------------------------------------------------------------------------
(* The alert block of risk(): lines 148-163, as functions of `feats` *)

\* (f.get("properties") or {}).get(key): None when properties is missing,
\* null or has no such key.
event_of(f) == IF f.properties.t = "obj" THEN f.properties.event ELSE Null
severity_of(f) == IF f.properties.t = "obj" THEN f.properties.severity ELSE Null

\* The comprehension of lines 148-151 raises when feats is None (not
\* iterable), when a feature has no .get, or when floodish() raises.
flood_feats_raises(fs) ==
    \/ fs.t # "list"
    \/ \E i \in 1..Len(fs.items) :
          \/ fs.items[i].t # "obj"
          \/ floodish_raises(event_of(fs.items[i]))

flood_feats_Unfiltered(fs) == fs.items

flood_feats(fs) == SelectSeq(fs.items, LAMBDA f : floodish(event_of(f)))

\* (severity or "").lower() raises when severity is truthy and no string.
severities_raises(ff) ==
    \E i \in 1..Len(ff) :
        Truthy(severity_of(ff[i])) /\ severity_of(ff[i]).t # "str"

severities(ff) ==
    [i \in 1..Len(ff) |->
        lower(IF Truthy(severity_of(ff[i])) THEN severity_of(ff[i]).s ELSE <<>>)]

SevereWords == { <<"s","e","v","e","r","e">>, <<"e","x","t","r","e","m","e">> }

\* Lines 148-166: the values of level, alert_bump_applied and
\* debug_alerts_count after the block, and whether it ended in its except.
AlertFusion(lvl, fs) ==
    IF flood_feats_raises(fs)
    THEN [level |-> lvl, alert_bump_applied |-> FALSE,
          debug_alerts_count |-> 0, raised |-> TRUE]
    ELSE LET ff == flood_feats(fs) IN
         IF Len(ff) = 0
         THEN [level |-> lvl, alert_bump_applied |-> FALSE,
               debug_alerts_count |-> 0, raised |-> FALSE]
         ELSE IF severities_raises(ff)
         THEN [level |-> lvl, alert_bump_applied |-> FALSE,
               debug_alerts_count |-> Len(ff), raised |-> TRUE]
         ELSE LET sev == severities(ff) IN
              [level |-> IF \E i \in 1..Len(sev) : sev[i] \in SevereWords
                         THEN "High" ELSE bump_risk(lvl),
               alert_bump_applied |-> TRUE,
               debug_alerts_count |-> Len(ff), raised |-> FALSE]

NeedsStateFallback_NoFloodish(fs, sc) ==
    /\ \/ ~Truthy(fs)
       \/ /\ ~flood_feats_raises(fs)
          /\ Len(flood_feats(fs)) = 0
    /\ Truthy(sc)
    /\ Len(sc.s) = 2

\* Line 138: `not feats and state_code and len(state_code) == 2`.
NeedsStateFallback(fs, sc) ==
    /\ ~Truthy(fs)
    /\ Truthy(sc)
    /\ Len(sc.s) = 2

RiskResponse_PreFusionTips(lvl, bump, count) ==
    [kind |-> "ok", elevation_m |-> elev, avg_monthly_rain_mm |-> avg_rain,
     risk_level |-> lvl, tips |-> tips_for(calc_risk(elev, avg_rain)),
     alert_bump_applied |-> bump, debug_alerts_count |-> count,
     state_code |-> state_code]

\* Lines 169-181: the body of a successful answer.
RiskResponse(lvl, bump, count) ==
    [kind |-> "ok", elevation_m |-> elev, avg_monthly_rain_mm |-> avg_rain,
     risk_level |-> lvl, tips |-> tips_for(lvl),
     alert_bump_applied |-> bump, debug_alerts_count |-> count,
     state_code |-> state_code]

----------------------------------------------------------------------------
(* The steps of risk() *)

\* A collaborator of the first three raised: risk() answers with an error.
Fail(svc, result, status) ==
    /\ calls' = Append(calls, Call(svc, result))
    /\ response' = HttpError(status)
    /\ pc' = "done"

\* Line 110-112: geocode(address).
Geocode ==
    /\ pc = "start"
    /\ \/ /\ ~api_key
          /\ Fail("geocode", "no_key", 500)
          /\ UNCHANGED state_code
       \/ /\ api_key
          /\ \E f \in Failures : Fail("geocode", f, StatusOf(f))
          /\ UNCHANGED state_code
       \/ /\ api_key
          /\ Fail("geocode", "not_found", 400)
          /\ UNCHANGED state_code
       \/ /\ api_key
          /\ \E sc \in StateCodes : state_code' = sc
          /\ calls' = Append(calls, Call("geocode", "ok"))
          /\ pc' = "geocoded"
          /\ UNCHANGED response
    /\ UNCHANGED << api_key, elev, avg_rain, level, r, r2, feats,
                    alert_bump_applied, debug_alerts_count, alert_exc >>

GetElevation_Swallowed ==
    /\ pc = "geocoded"
    /\ \/ /\ \E f \in Failures :
                calls' = Append(calls, Call("elevation", f))
          /\ elev' = 0
          /\ pc' = "elevated"
          /\ UNCHANGED response
       \/ /\ \E e \in ElevValues : elev' = e
          /\ calls' = Append(calls, Call("elevation", "ok"))
          /\ pc' = "elevated"
          /\ UNCHANGED response
    /\ UNCHANGED << api_key, state_code, avg_rain, level, r, r2, feats,
                    alert_bump_applied, debug_alerts_count, alert_exc >>

\* Line 114: get_elevation(lat, lon).
GetElevation ==
    /\ pc = "geocoded"
    /\ \/ /\ \E f \in Failures : Fail("elevation", f, StatusOf(f))
          /\ UNCHANGED elev
       \/ /\ \E e \in ElevValues : elev' = e
          /\ calls' = Append(calls, Call("elevation", "ok"))
          /\ pc' = "elevated"
          /\ UNCHANGED response
    /\ UNCHANGED << api_key, state_code, avg_rain, level, r, r2, feats,
                    alert_bump_applied, debug_alerts_count, alert_exc >>

\* Lines 115-120: get_avg_monthly_rain(lat, lon), then calc_risk and the
\* initial values of the alert block's locals.
GetAvgMonthlyRain ==
    /\ pc = "elevated"
    /\ \/ /\ \E f \in Failures : Fail("rainfall", f, StatusOf(f))
          /\ UNCHANGED << avg_rain, level, alert_bump_applied,
                          debug_alerts_count >>
       \/ /\ \E a \in RainValues : avg_rain' = a
          /\ level' = calc_risk(elev, avg_rain')
          /\ alert_bump_applied' = FALSE
          /\ debug_alerts_count' = 0
          /\ calls' = Append(calls, Call("rainfall", "ok"))
          /\ pc' = "alerts"
          /\ UNCHANGED response
    /\ UNCHANGED << api_key, state_code, elev, r, r2, feats, alert_exc >>

\* r.json().get("features", ...) raises when the body is no JSON or the
\* JSON is no object.
json_features_raises(resp) == resp.body.t # "obj"

\* Lines 128-135 and the test of line 138: the point query.
AlertPointQuery ==
    /\ pc = "alerts"
    /\ \E out \in AlertOutcomes :
         \/ /\ out.raised
            /\ calls' = Append(calls, Call("alerts_point", "raised"))
            /\ alert_exc' = TRUE
            /\ pc' = "alert_failed"
            /\ UNCHANGED << r, feats >>
         \/ /\ ~out.raised
            /\ out.ok
            /\ json_features_raises(out)
            /\ calls' = Append(calls, Call("alerts_point", "bad_body"))
            /\ r' = out
            /\ alert_exc' = TRUE
            /\ pc' = "alert_failed"
            /\ UNCHANGED feats
         \/ /\ ~out.raised
            /\ out.ok => ~json_features_raises(out)
            /\ calls' = Append(calls,
                    Call("alerts_point", IF out.ok THEN "ok" ELSE "not_ok"))
            /\ r' = out
            /\ feats' = IF out.ok THEN out.body.features ELSE List(<<>>)
            /\ pc' = IF NeedsStateFallback(feats', state_code)
                     THEN "area" ELSE "fuse"
            /\ UNCHANGED alert_exc
    /\ UNCHANGED << api_key, state_code, elev, avg_rain, level, r2,
                    alert_bump_applied, debug_alerts_count, response >>

\* Lines 139-146: the state-wide query.
AlertAreaQuery ==
    /\ pc = "area"
    /\ \E out \in AlertOutcomes :
         \/ /\ out.raised
            /\ calls' = Append(calls, Call("alerts_area", "raised"))
            /\ alert_exc' = TRUE
            /\ pc' = "alert_failed"
            /\ UNCHANGED << r2, feats >>
         \/ /\ ~out.raised
            /\ out.ok
            /\ json_features_raises(out)
            /\ calls' = Append(calls, Call("alerts_area", "bad_body"))
            /\ r2' = out
            /\ alert_exc' = TRUE
            /\ pc' = "alert_failed"
            /\ UNCHANGED feats
         \/ /\ ~out.raised
            /\ out.ok => ~json_features_raises(out)
            /\ calls' = Append(calls,
                    Call("alerts_area", IF out.ok THEN "ok" ELSE "not_ok"))
            /\ r2' = out
            /\ feats' = IF out.ok
                        THEN (IF Truthy(out.body.features)
                              THEN out.body.features ELSE List(<<>>))
                        ELSE feats
            /\ pc' = "fuse"
            /\ UNCHANGED alert_exc
    /\ UNCHANGED << api_key, state_code, elev, avg_rain, level, r,
                    alert_bump_applied, debug_alerts_count, response >>

\* Lines 148-181: filter the flood alerts, bump the level (an exception
\* inside is swallowed by line 164) and answer.
FuseAlerts ==
    /\ pc = "fuse"
    /\ LET out == AlertFusion(level, feats) IN
         /\ level' = out.level
         /\ alert_bump_applied' = out.alert_bump_applied
         /\ debug_alerts_count' = out.debug_alerts_count
         /\ alert_exc' = out.raised
         /\ response' = RiskResponse(out.level, out.alert_bump_applied,
                                     out.debug_alerts_count)
    /\ pc' = "done"
    /\ UNCHANGED << api_key, calls, state_code, elev, avg_rain, r, r2,
                    feats >>

\* Lines 164-181 after an alert query raised: the answer without fusion.
RespondAfterAlertFailure ==
    /\ pc = "alert_failed"
    /\ response' = RiskResponse(level, alert_bump_applied, debug_alerts_count)
    /\ pc' = "done"
    /\ UNCHANGED << api_key, calls, state_code, elev, avg_rain, level, r, r2,
                    feats, alert_bump_applied, debug_alerts_count,
                    alert_exc >>

Next ==
    \/ Geocode
    \/ GetElevation
    \/ GetAvgMonthlyRain
    \/ AlertPointQuery
    \/ AlertAreaQuery
    \/ FuseAlerts
    \/ RespondAfterAlertFailure

Spec == Init /\ [][Next]_vars

----------------------------------------------------------------------------
(* Vocabulary of the properties, stated independently of the code above *)

TierOrder == <<"Very Low", "Low", "Moderate", "High", "Very High">>
Tiers == {TierOrder[i] : i \in 1..Len(TierOrder)}
Rank(tier) == CHOOSE i \in 1..Len(TierOrder) : TierOrder[i] = tier
Successor(tier) ==
    IF Rank(tier) = Len(TierOrder) THEN tier ELSE TierOrder[Rank(tier) + 1]

\* The request was answered successfully.
Answered == pc = "done" /\ response.kind = "ok"

\* The tier calc_risk gave this request, before any fusion.
BaseTier == calc_risk(elev, avg_rain)

\* An alert record is flood-relevant: its event name contains flood, flash,
\* coastal or surge, in any letter case.
FloodRelevant(f) ==
    /\ f.t = "obj"
    /\ f.properties.t = "obj"
    /\ f.properties.event.t = "str"
    /\ LET name == lower(f.properties.event.s) IN
         \/ Contains(name, <<"f","l","o","o","d">>)
         \/ Contains(name, <<"f","l","a","s","h">>)
         \/ Contains(name, <<"c","o","a","s","t","a","l">>)
         \/ Contains(name, <<"s","u","r","g","e">>)

\* A flood-relevant alert whose severity is "severe" or "extreme", in any
\* letter case.
SevereFlood(f) ==
    /\ FloodRelevant(f)
    /\ f.properties.severity.t = "str"
    /\ lower(f.properties.severity.s)
          \in { <<"s","e","v","e","r","e">>, <<"e","x","t","r","e","m","e">> }

\* The records of a JSON value that is a list (none otherwise).
Items(fs) == IF fs.t = "list" THEN fs.items ELSE <<>>

FloodCount(fs) ==
    Cardinality({i \in 1..Len(Items(fs)) : FloodRelevant(Items(fs)[i])})

\* An alert list of the documented shape: every record is an object whose
\* event name and severity are each a string or absent.
WellFormedRecord(f) ==
    /\ f.t = "obj"
    /\ \/ f.properties.t = "null"
       \/ /\ f.properties.t = "obj"
          /\ f.properties.event.t \in {"str", "null"}
          /\ f.properties.severity.t \in {"str", "null"}

WellFormed(fs) ==
    /\ fs.t = "list"
    /\ \A i \in 1..Len(fs.items) : WellFormedRecord(fs.items[i])

HasFlood(fs) == \E i \in 1..Len(Items(fs)) : FloodRelevant(Items(fs)[i])
HasSevereFlood(fs) == \E i \in 1..Len(Items(fs)) : SevereFlood(Items(fs)[i])

Called(svc) == \E i \in 1..Len(calls) : calls[i].svc = svc

----------------------------------------------------------------------------
(* C1 *)

\* C1: the risk_level answered after the alert-fusion step is never lower,
\* in the order Very Low < Low < Moderate < High < Very High, than the base
\* tier calc_risk produced.  (Violated: a severe or extreme flood alert
\* sets High over a base tier of Very High.)
C1_FusionNeverLowers ==
    Answered => Rank(response.risk_level) >= Rank(BaseTier)

----------------------------------------------------------------------------
(* C2 *)

ElevBuckets(x) ==
    { b \in 0..3 : \/ b = 0 /\ x >= 20
                   \/ b = 1 /\ 10 <= x /\ x < 20
                   \/ b = 2 /\ 5 <= x /\ x < 10
                   \/ b = 3 /\ x < 5 }

RainBuckets(x) ==
    { b \in 0..3 : \/ b = 0 /\ x <= 50
                   \/ b = 1 /\ 50 < x /\ x <= 90
                   \/ b = 2 /\ 90 < x /\ x <= 120
                   \/ b = 3 /\ x > 120 }

TierOfScore(t) ==
    CASE t <= 1      -> "Very Low"
      [] t \in 2..3  -> "Low"
      [] t = 4       -> "Moderate"
      [] t = 5       -> "High"
      [] t = 6       -> "Very High"

\* C2: calc_risk agrees with the reference table: the elevation and the
\* rainfall each fall in exactly one bucket, and the tier is the table's
\* for the sum of the two buckets; in particular elev >= 20 with rain <= 50
\* is Very Low, elev < 5 with rain > 120 is Very High, and 7 m with 82 mm
\* is Low.  Stated of `level` right after line 116.
C2_CalcRiskTable ==
    pc = "alerts" =>
        /\ Cardinality(ElevBuckets(elev)) = 1
        /\ Cardinality(RainBuckets(avg_rain)) = 1
        /\ \A e \in ElevBuckets(elev) : \A b \in RainBuckets(avg_rain) :
              level = TierOfScore(e + b)
        /\ (elev >= 20 /\ avg_rain <= 50) => level = "Very Low"
        /\ (elev < 5 /\ avg_rain > 120) => level = "Very High"
        /\ (elev = 7 /\ avg_rain = 82) => level = "Low"

\* A request scored on two bucket boundaries at once (5 m, 120 mm).
C2_Witness ==
    pc = "alerts" /\ elev = 5 /\ avg_rain = 120 /\ level = "Moderate"

----------------------------------------------------------------------------
(* C9 *)

\* C9: calc_risk is monotone: with the rainfall fixed no higher elevation
\* gives a higher tier, and with the elevation fixed no higher rainfall
\* gives a lower tier.  Stated of `level` right after line 116, against
\* every other elevation and rainfall of the model.
C9_CalcRiskMonotone ==
    pc = "alerts" =>
        /\ \A e2 \in ElevValues :
              e2 >= elev => Rank(calc_risk(e2, avg_rain)) <= Rank(level)
        /\ \A a2 \in RainValues :
              a2 >= avg_rain => Rank(calc_risk(elev, a2)) >= Rank(level)

\* A scored request for which a higher elevation gives a strictly lower
\* tier and a higher rainfall a strictly higher one.
C9_Witness ==
    /\ pc = "alerts"
    /\ \E e2 \in ElevValues :
          e2 > elev /\ Rank(calc_risk(e2, avg_rain)) < Rank(level)
    /\ \E a2 \in RainValues :
          a2 > avg_rain /\ Rank(calc_risk(elev, a2)) > Rank(level)

----------------------------------------------------------------------------
(* C3, C4, C7: the fusion step on the alert list `feats` *)

\* C3: when the alert list the fusion step sees (a list of alert records
\* of the documented shape) holds a flood-relevant alert of severity severe
\* or extreme, in any letter case, the answer's risk_level is High whatever
\* the base tier, alert_bump_applied is true and debug_alerts_count is the
\* number of flood-relevant alerts.
C3_SevereForcesHigh ==
    (Answered /\ WellFormed(feats) /\ HasSevereFlood(feats)) =>
        /\ response.risk_level = "High"
        /\ response.alert_bump_applied
        /\ response.debug_alerts_count = FloodCount(feats)

\* A base tier of Very Low answered as High on an upper-case extreme alert
\* that came with an alert that is not flood-relevant.
C3_Witness ==
    /\ Answered
    /\ WellFormed(feats)
    /\ BaseTier = "Very Low"
    /\ Len(feats.items) = 2
    /\ \E i \in 1..2 :
          /\ SevereFlood(feats.items[i])
          /\ feats.items[i].properties.severity.s = <<"E","X","T","R","E","M","E">>
    /\ response.risk_level = "High"
    /\ response.debug_alerts_count = 1

\* C4: when the alert list the fusion step sees (of the documented shape)
\* holds a flood-relevant alert and none of severity severe or extreme, the
\* answer's risk_level is the successor of the base tier in [Very Low, Low,
\* Moderate, High, Very High], Very High staying Very High; so it rises by
\* at most one step, and alert_bump_applied is true.
C4_BumpIsSuccessor ==
    (Answered /\ WellFormed(feats) /\ HasFlood(feats) /\ ~HasSevereFlood(feats)) =>
        /\ response.risk_level = Successor(BaseTier)
        /\ Rank(response.risk_level) - Rank(BaseTier) \in {0, 1}
        /\ (Rank(response.risk_level) = Rank(BaseTier)) <=> (BaseTier = "Very High")
        /\ response.alert_bump_applied

\* A base tier of Low answered as Moderate on a flood alert that is not
\* severe.
C4_Witness ==
    /\ Answered
    /\ WellFormed(feats)
    /\ HasFlood(feats)
    /\ ~HasSevereFlood(feats)
    /\ BaseTier = "Low"
    /\ response.risk_level = "Moderate"

\* C7: when the alert list the fusion step sees is empty or holds no
\* flood-relevant alert, the answer's risk_level is the base tier,
\* alert_bump_applied is false and debug_alerts_count is 0.
C7_NoFloodNoChange ==
    (Answered /\ ~HasFlood(feats)) =>
        /\ response.risk_level = BaseTier
        /\ ~response.alert_bump_applied
        /\ response.debug_alerts_count = 0

\* The fusion step ran on a list holding only an alert that is not
\* flood-relevant, though of extreme severity.
C7_Witness ==
    /\ Answered
    /\ ~alert_exc
    /\ WellFormed(feats)
    /\ Len(feats.items) = 1
    /\ ~FloodRelevant(feats.items[1])
    /\ feats.items[1].properties.t = "obj"
    /\ feats.items[1].properties.severity.t = "str"
    /\ response.risk_level = BaseTier

----------------------------------------------------------------------------
(* C5 *)

\* The last alert query that returned a response.
LastAlertResponse == IF r2.t # "null" THEN r2 ELSE r

\* Alert retrieval was unavailable or malformed: the alert block ended in
\* its except clause, or the last query answered non-OK.
AlertsUnavailable ==
    \/ alert_exc
    \/ LastAlertResponse.t # "null" /\ ~LastAlertResponse.ok

\* C5: if alert retrieval is unavailable or malformed anywhere in the alert
\* block, the request still succeeds and is answered as if no alert was
\* found: risk_level is the base tier, alert_bump_applied is false and
\* debug_alerts_count is 0.  (Violated: a flood-relevant record with a
\* severity that is not a string leaves debug_alerts_count at the number of
\* flood-relevant records.)
C5_AlertFailureIsNoAlerts ==
    (pc = "done" /\ Called("alerts_point") /\ AlertsUnavailable) =>
        /\ response.kind = "ok"
        /\ response.risk_level = BaseTier
        /\ ~response.alert_bump_applied
        /\ response.debug_alerts_count = 0

----------------------------------------------------------------------------
(* C6 *)

\* The point query returned a usable answer: it did not raise and, if OK,
\* its body is a JSON object.
PointReturned ==
    /\ pc \in {"area", "fuse", "alert_failed", "done"}
    /\ r.t # "null"
    /\ r.ok => r.body.t = "obj"

\* The alerts the point query returned (none when it answered non-OK).
PointFeatures == IF r.ok THEN r.body.features ELSE List(<<>>)

TwoLetterCode == state_code.t = "str" /\ Len(state_code.s) = 2

AreaQueried == pc = "area" \/ Called("alerts_area")

\* C6 as first stated: the region-wide query is made whenever the point
\* query returned no flood-relevant alert and a two-letter region code is
\* available, also when the point query returned only alerts that are not
\* flood-relevant.
C6_FallbackWhenNoFloodAlert ==
    (PointReturned /\ WellFormed(PointFeatures) /\ ~HasFlood(PointFeatures)
        /\ TwoLetterCode) => AreaQueried

\* C6, amended: the region-wide query is made exactly when the point query
\* returned no alert at all (an empty or null list, or a non-OK answer) and
\* a two-letter region code is available; and when the region-wide query
\* answers OK with a list, that list is the one fusion uses, so that for a
\* list of the documented shape debug_alerts_count is the number of its
\* flood-relevant alerts.
C6_FallbackWhenNoAlert ==
    /\ PointReturned =>
          (AreaQueried <=> (Len(Items(PointFeatures)) = 0 /\ TwoLetterCode))
    /\ (pc = "done" /\ r2.t # "null" /\ r2.ok /\ r2.body.t = "obj") =>
          /\ Items(feats) = Items(r2.body.features)
          /\ WellFormed(r2.body.features) =>
                /\ response.debug_alerts_count = FloodCount(r2.body.features)
                /\ response.alert_bump_applied = HasFlood(r2.body.features)

\* The point query answered OK with no alert, the region-wide query was
\* made and its flood alert was used for the bump.
C6_Witness ==
    /\ Answered
    /\ PointReturned
    /\ r.ok
    /\ Len(Items(PointFeatures)) = 0
    /\ TwoLetterCode
    /\ Called("alerts_area")
    /\ r2.t # "null" /\ r2.ok /\ r2.body.t = "obj"
    /\ WellFormed(r2.body.features)
    /\ HasFlood(r2.body.features)
    /\ response.alert_bump_applied
    /\ response.debug_alerts_count = 1

----------------------------------------------------------------------------
(* C8 *)

\* C8: the tips of a successful answer are tips_for of the risk_level of
\* that same answer; and tips_for gives, for each of the five tiers, three
\* non-empty strings: one list for High and Very High, another for
\* Moderate, a third for Very Low and Low.
C8_TipsOfFinalTier ==
    Answered =>
        /\ response.tips = tips_for(response.risk_level)
        /\ \A t \in Tiers :
              /\ Len(tips_for(t)) = 3
              /\ \A i \in 1..3 : tips_for(t)[i] # ""
        /\ tips_for("High") = tips_for("Very High")
        /\ tips_for("Very Low") = tips_for("Low")
        /\ tips_for("Moderate") # tips_for("High")
        /\ tips_for("Moderate") # tips_for("Low")
        /\ tips_for("Low") # tips_for("High")

\* An answer whose tier was raised by fusion into another tips group: its
\* tips are not those of the base tier.
C8_Witness ==
    /\ Answered
    /\ response.risk_level # BaseTier
    /\ response.tips # tips_for(BaseTier)
    /\ response.tips = tips_for(response.risk_level)

----------------------------------------------------------------------------
(* C10 *)

CallOrder == <<"geocode", "elevation", "rainfall", "alerts_point", "alerts_area">>

\* C10: the collaborators are called in the order geocode, elevation,
\* rainfall, point alert query, region alert query, each at most once; a
\* failure of one of the first three (or an address not found, answered
\* 400) is the last call of the request, which ends at once with an error
\* and no risk_level; a failed alert query never keeps the request from a
\* successful answer.
C10_CallOrderAndFailures ==
    /\ Len(calls) <= Len(CallOrder)
    /\ \A i \in 1..Len(calls) :
          /\ calls[i].svc \in {CallOrder[i], CallOrder[Len(CallOrder)]}
          /\ calls[i].svc = CallOrder[Len(CallOrder)] => i >= 4
          /\ \A j \in 1..Len(calls) : calls[i].svc = calls[j].svc => i = j
    /\ \A i \in 1..Len(calls) :
          (calls[i].svc \in {"geocode", "elevation", "rainfall"}
              /\ calls[i].result # "ok") =>
                /\ i = Len(calls)
                /\ pc = "done"
                /\ response.kind = "error"
                /\ response.status = IF calls[i].result = "not_found" THEN 400
                                     ELSE IF calls[i].result = "http_error" THEN 502
                                     ELSE 500
    /\ (pc = "done" /\ response.kind = "error") =>
          /\ Len(calls) \in 1..3
          /\ calls[Len(calls)].result # "ok"
    /\ (pc = "done" /\ \A i \in 1..Len(calls) :
            calls[i].svc \in {"geocode", "elevation", "rainfall"}
                => calls[i].result = "ok") =>
          /\ response.kind = "ok"
          /\ response.risk_level \in Tiers

\* The elevation service failed with an HTTP error: the request ended with
\* 502 after two calls.
C10_Witness ==
    /\ pc = "done"
    /\ Len(calls) = 2
    /\ calls[2] = Call("elevation", "http_error")
    /\ response = HttpError(502)

====
